---- MODULE Spec2Model ----
(***************************************************************************)
(* Model of the ingestion, spike-detection and ranking engine of           *)
(* backend/services/ingestion.py (class IngestionService) and of the       *)
(* request handlers of backend/routes.py that touch its state.             *)
(*                                                                         *)
(* Numbers.  Volumes are integers.  A spike ratio is the exact rational    *)
(* 7 * volume24hr / volume1wk, kept as a pair <<num, den>> in lowest terms *)
(* with den > 0; comparisons are done by cross-multiplication, and the     *)
(* products old * (1 + 0.05) and old * (1 - 0.05) are exact as well (a     *)
(* floating-point product may differ from the exact one in its last bit).  *)
(* A probability is kept in hundredths (60 stands for 0.60).  Timestamps   *)
(* are readings of one non-decreasing clock of finite resolution: two      *)
(* readings taken one after the other may be equal.                        *)
(***************************************************************************)
EXTENDS Integers, Sequences, FiniteSets, TLC

VARIABLES
    events,           \* self.events: dict id -> PolymarketEvent (the mapping)
    event_keys,       \* self.events: the dict's keys in insertion order
    previous_spikes,  \* self.previous_spikes: dict id -> ratio
    changes,          \* self.changes: deque(maxlen = MAX_CHANGES)
    clock,            \* the last reading of datetime.now(timezone.utc)
    ret,              \* the list last returned by fetch_and_process_markets
    emitted,          \* the list last returned by detect_changes
    fed,              \* the batches fetched so far (kept by SpecRatio only)
    call,             \* a call of a pure function: its arguments and result
    running,          \* self.running
    polling_task,     \* the task of start_polling: where it stands
    closed,           \* the feed client has been closed (client.aclose())
    lifespan,         \* app.py lifespan: where it stands
    inflight          \* the coroutines awaiting the feed, in the order of their requests

vars == <<events, event_keys, previous_spikes, changes, clock, ret, emitted, fed, call,
          running, polling_task, closed, lifespan, inflight>>

\* the variables of the poll loop and of the application's lifecycle
loopvars == <<running, polling_task, closed, lifespan, inflight>>

\* a task: its position and the delay of the sleep it is in (0 when in none)
Task(pc, sleep) == [pc |-> pc, sleep |-> sleep]

\* Python's None, for every optional value (the other values of such a place
\* are non-empty tuples or records)
None == << >>

\* A JSON number n of a raw record is <<n>>, JSON null is None.
Num(n) == <<n>>

----------------------------------------------------------------------------
(* Bounds of the model and the inputs the feed is drawn from.              *)

MaxTime == 2         \* Spec: the clock readings are 0..MaxTime
MaxTimeRatio == 5    \* SpecRatio: the clock readings are 0..MaxTimeRatio
MaxTimeLog == 1      \* SpecLog: the clock readings are 0..MaxTimeLog

Ids == {"a", "b"}

----------------------------------------------------------------------------
(* Exact rationals <<num, den>>, den > 0.                                  *)

Abs(n) == IF n < 0 THEN -n ELSE n

RECURSIVE GCD(_, _)
GCD(m, n) == IF n = 0 THEN m ELSE GCD(n, m % n)

\* float division a / b for b > 0, exact, in lowest terms
Div(n, d) ==
    LET g == GCD(Abs(n), d)
    IN  <<n \div g, d \div g>>

RatLt(x, y) == x[1] * y[2] < y[1] * x[2]
RatLeq(x, y) == x[1] * y[2] <= y[1] * x[2]
RatMul(x, y) == <<x[1] * y[1], x[2] * y[2]>>

----------------------------------------------------------------------------
(* Class constants of IngestionService.                                    *)

VOLUME_SPIKE_THRESHOLD == <<13, 10>>

\* a slip of the decimal point: 0.005 for 0.05
SPIKE_CHANGE_THRESHOLD_Slip == <<5, 1000>>

SPIKE_CHANGE_THRESHOLD == <<5, 100>>
MAX_CHANGES == 100

\* 1 + SPIKE_CHANGE_THRESHOLD and 1 - SPIKE_CHANGE_THRESHOLD
OnePlus(t) == <<t[2] + t[1], t[2]>>
OneMinus(t) == <<t[2] - t[1], t[2]>>

----------------------------------------------------------------------------
(* calculate_volume_spike                                                  *)

\* calculate_volume_spike dividing by the weekly volume, not the daily average
calculate_volume_spike_Weekly(volume24hr, volume1wk) ==
    IF volume1wk <= 0 THEN None
    ELSE LET ratio == Div(volume24hr, volume1wk)
         IN  IF RatLeq(VOLUME_SPIKE_THRESHOLD, ratio) THEN ratio ELSE None

\* calculate_volume_spike with > for >= (a ratio of exactly 1.3 is no spike)
calculate_volume_spike_Gt(volume24hr, volume1wk) ==
    IF volume1wk <= 0 THEN None
    ELSE LET ratio == Div(volume24hr * 7, volume1wk)
         IN  IF RatLt(VOLUME_SPIKE_THRESHOLD, ratio) THEN ratio ELSE None

calculate_volume_spike(volume24hr, volume1wk) ==
    IF volume1wk <= 0 THEN None
    ELSE LET avg_daily_volume == <<volume1wk, 7>>
         IN  IF avg_daily_volume[1] <= 0 THEN None
             ELSE LET ratio == Div(volume24hr * avg_daily_volume[2], avg_daily_volume[1])
                  IN  IF RatLeq(VOLUME_SPIKE_THRESHOLD, ratio) THEN ratio ELSE None

----------------------------------------------------------------------------
(* process_market: one raw record -> PolymarketEvent, or None (skipped).   *)
(* A raw record is [id, volume24hr, volume1wk, outcomePrices]; a volume is *)
(* Num(n) or None (JSON null).  outcomePrices is one of the strings below; *)
(* ParsePrices gives what lines 151-164 make of it.                        *)

PriceStrings == {"[\"0.6\", \"0.4\"]", "0.6, 0.4", "[]", "", "abc", "[\"1.5\"]"}

Parsed(list) == [raised |-> FALSE, list |-> list]
Raised == [raised |-> TRUE, list |-> << >>]

\* json.loads(s): the parsed list (in hundredths), or JSONDecodeError raised
JsonLoads(s) ==
    CASE s = "[\"0.6\", \"0.4\"]" -> Parsed(<<60, 40>>)
      [] s = "[\"1.5\"]" -> Parsed(<<150>>)
      [] s = "[]" -> Parsed(<< >>)
      [] OTHER -> Raised

\* [float(p.strip()) for p in s.split(",") if p.strip()], or ValueError raised
CommaSplit(s) ==
    CASE s = "0.6, 0.4" -> Parsed(<<60, 40>>)
      [] s = "" -> Parsed(<< >>)
      [] OTHER -> Raised

\* lines 151-164: <<probability>>, or None when the ValueError escapes
ParsePrices(s) ==
    LET loaded == JsonLoads(s)
        prices == IF loaded.raised THEN CommaSplit(s) ELSE loaded
    IN  IF prices.raised THEN None
        ELSE IF prices.list # << >> THEN <<prices.list[1]>> ELSE <<50>>

\* process_market building the event without the bounds of probability
process_market_Unvalidated(market_data, t) ==
    IF market_data.volume1wk = None \/ market_data.volume24hr = None
    THEN None
    ELSE LET volume24hr == market_data.volume24hr[1]
             volume1wk == market_data.volume1wk[1]
             probability == ParsePrices(market_data.outcomePrices)
         IN  IF probability = None THEN None
             ELSE [id |-> market_data.id,
                   probability |-> probability[1],
                   volume24hr |-> volume24hr,
                   volume1wk |-> volume1wk,
                   detectedAt |-> t,
                   locked |-> FALSE,
                   volumeSpike |-> calculate_volume_spike(volume24hr, volume1wk)]

process_market(market_data, t) ==
    IF market_data.volume1wk = None \/ market_data.volume24hr = None
    THEN None        \* TypeError in calculate_volume_spike, or ValidationError
    ELSE LET volume24hr == market_data.volume24hr[1]
             volume1wk == market_data.volume1wk[1]
             volume_spike == calculate_volume_spike(volume24hr, volume1wk)
             probability == ParsePrices(market_data.outcomePrices)
         IN  IF probability = None THEN None
             \* PolymarketEvent(**event_data): probability has ge=0, le=1
             ELSE IF ~(0 <= probability[1] /\ probability[1] <= 100) THEN None
             ELSE [id |-> market_data.id,
                   probability |-> probability[1],
                   volume24hr |-> volume24hr,
                   volume1wk |-> volume1wk,
                   detectedAt |-> t,
                   locked |-> FALSE,
                   volumeSpike |-> volume_spike]

----------------------------------------------------------------------------
(* Python containers.                                                      *)

\* dict.get(k): the value, or None
Get(d, k) == IF k \in DOMAIN d THEN d[k] ELSE None

\* d[k] = v
Put(d, k, v) == [i \in DOMAIN d \cup {k} |-> IF i = k THEN v ELSE d[i]]

\* del d[k]
Del(d, k) == [i \in DOMAIN d \ {k} |-> d[i]]

\* the key order of a dict after d[k] = v: a new key goes last
PutKey(keys, k) ==
    IF \E i \in 1..Len(keys) : keys[i] = k THEN keys ELSE Append(keys, k)

\* appendleft for append: the new entry goes to the head
DequeAppend_Front(q, x) ==
    IF Len(q) >= MAX_CHANGES THEN <<x>> \o SubSeq(q, 1, Len(q) - 1) ELSE <<x>> \o q

\* a full log giving up its newest entry, not its oldest
DequeAppend_DropNewest(q, x) ==
    IF Len(q) >= MAX_CHANGES THEN Append(SubSeq(q, 1, Len(q) - 1), x) ELSE Append(q, x)

\* a list that is never trimmed
DequeAppend_Unbounded(q, x) == Append(q, x)

\* deque(maxlen = MAX_CHANGES).append(x)
DequeAppend(q, x) ==
    IF Len(q) >= MAX_CHANGES THEN Append(Tail(q), x) ELSE Append(q, x)

----------------------------------------------------------------------------
(* detect_changes                                                          *)

\* change_type = None (line 218): a string like the other change types
NoType == "none"

\* ChangeType with >= for the increase (the boundary counts as an increase)
ChangeType_IncGeq(old_spike, new_spike) ==
    IF old_spike = None /\ new_spike # None THEN "new_spike"
    ELSE IF old_spike # None /\ new_spike # None
         THEN IF RatLeq(RatMul(old_spike, OnePlus(SPIKE_CHANGE_THRESHOLD)), new_spike)
              THEN "spike_increased"
              ELSE IF RatLt(new_spike, RatMul(old_spike, OneMinus(SPIKE_CHANGE_THRESHOLD)))
                   THEN "spike_decreased"
                   ELSE NoType
    ELSE IF old_spike # None /\ new_spike = None THEN "spike_removed"
    ELSE NoType

\* ChangeType with <= for the decrease (the boundary counts as a decrease)
ChangeType_DecLeq(old_spike, new_spike) ==
    IF old_spike = None /\ new_spike # None THEN "new_spike"
    ELSE IF old_spike # None /\ new_spike # None
         THEN IF RatLt(RatMul(old_spike, OnePlus(SPIKE_CHANGE_THRESHOLD)), new_spike)
              THEN "spike_increased"
              ELSE IF RatLeq(new_spike, RatMul(old_spike, OneMinus(SPIKE_CHANGE_THRESHOLD)))
                   THEN "spike_decreased"
                   ELSE NoType
    ELSE IF old_spike # None /\ new_spike = None THEN "spike_removed"
    ELSE NoType

\* ChangeType with the labels of the increase and the decrease exchanged
ChangeType_Mislabelled(old_spike, new_spike) ==
    IF old_spike = None /\ new_spike # None THEN "new_spike"
    ELSE IF old_spike # None /\ new_spike # None
         THEN IF RatLt(RatMul(old_spike, OnePlus(SPIKE_CHANGE_THRESHOLD)), new_spike)
              THEN "spike_decreased"
              ELSE IF RatLt(new_spike, RatMul(old_spike, OneMinus(SPIKE_CHANGE_THRESHOLD)))
                   THEN "spike_increased"
                   ELSE NoType
    ELSE IF old_spike # None /\ new_spike = None THEN "spike_removed"
    ELSE NoType

\* lines 218-237: the change type for one event, or NoType
ChangeType(old_spike, new_spike) ==
    IF old_spike = None /\ new_spike # None THEN "new_spike"
    ELSE IF old_spike # None /\ new_spike # None
         THEN IF RatLt(RatMul(old_spike, OnePlus(SPIKE_CHANGE_THRESHOLD)), new_spike)
              THEN "spike_increased"
              ELSE IF RatLt(new_spike, RatMul(old_spike, OneMinus(SPIKE_CHANGE_THRESHOLD)))
                   THEN "spike_decreased"
                   ELSE NoType
    ELSE IF old_spike # None /\ new_spike = None THEN "spike_removed"
    ELSE NoType

\* lines 256-257: the change types that bump detectedAt
Bumps(change_type) == change_type \in {"new_spike", "spike_increased"}

\* UpdatePrevious without the del of lines 263-265: a stale entry stays
UpdatePrevious_NoDel(prev, event_id, new_spike) ==
    IF new_spike # None THEN Put(prev, event_id, new_spike) ELSE prev

\* UpdatePrevious keeping the ratio of an entry that exists: the baseline is
\* the ratio of the cycle in which the spike began
UpdatePrevious_KeepBaseline(prev, event_id, new_spike) ==
    IF new_spike # None
    THEN IF event_id \in DOMAIN prev THEN prev ELSE Put(prev, event_id, new_spike)
    ELSE IF event_id \in DOMAIN prev THEN Del(prev, event_id)
    ELSE prev

\* lines 260-265
UpdatePrevious(prev, event_id, new_spike) ==
    IF new_spike # None THEN Put(prev, event_id, new_spike)
    ELSE IF event_id \in DOMAIN prev THEN Del(prev, event_id)
    ELSE prev

\* One iteration of the loop of line 212 on new_events[i]; st holds the loop's
\* state: previous_spikes, self.changes, the local list changes and the events
\* (the objects of new_events, mutated in place).
DetectStep(st, i, now) ==
    LET event == st.new_events[i]
        event_id == event.id
        new_spike == event.volumeSpike
        old_spike == Get(st.previous_spikes, event_id)
        change_type == ChangeType(old_spike, new_spike)
        change == [eventId |-> event_id,
                   changeType |-> change_type,
                   timestamp |-> now,
                   oldSpikeRatio |-> old_spike,
                   newSpikeRatio |-> new_spike,
                   volume24hr |-> event.volume24hr,
                   probability |-> event.probability]
    IN  [previous_spikes |-> UpdatePrevious(st.previous_spikes, event_id, new_spike),
         self_changes |-> IF change_type # NoType
                          THEN DequeAppend(st.self_changes, change)
                          ELSE st.self_changes,
         changes |-> IF change_type # NoType THEN Append(st.changes, change)
                     ELSE st.changes,
         new_events |-> IF Bumps(change_type)
                        THEN [st.new_events EXCEPT ![i].detectedAt = now]
                        ELSE st.new_events]

RECURSIVE DetectFrom(_, _, _)
DetectFrom(st, i, now) ==
    IF i > Len(st.new_events) THEN st
    ELSE DetectFrom(DetectStep(st, i, now), i + 1, now)

\* detect_changes forgetting the spike of every market that is not among
\* new_events
detect_changes_DropAbsent(prev, log, new_events, now) ==
    LET present == { new_events[i].id : i \in 1..Len(new_events) }
        d == DetectFrom([previous_spikes |-> prev, self_changes |-> log,
                         changes |-> <<>>, new_events |-> new_events], 1, now)
    IN  [d EXCEPT !.previous_spikes =
            [id \in DOMAIN d.previous_spikes \cap present |-> d.previous_spikes[id]]]

detect_changes(prev, log, new_events, now) ==
    DetectFrom([previous_spikes |-> prev, self_changes |-> log, changes |-> <<>>,
                new_events |-> new_events], 1, now)

----------------------------------------------------------------------------
(* fetch_and_process_markets, from the return of the fetch on: there is no *)
(* await after line 285, so the rest of the coroutine is one step.         *)

\* When record i of the batch is processed, and when detect_changes reads the
\* clock: the clock ticks once, right before record `tick` (before
\* detect_changes for tick = Len + 1, not at all for tick = Len + 2).
CreatedAt(i, tick) == IF i >= tick THEN clock + 1 ELSE clock
DetectedNow(markets, tick) == IF tick <= Len(markets) + 1 THEN clock + 1 ELSE clock

\* ProcessFrom giving up the batch at the first record that fails
RECURSIVE ProcessFrom_StopAtFirst(_, _, _)
ProcessFrom_StopAtFirst(markets, i, tick) ==
    IF i > Len(markets) THEN <<>>
    ELSE LET event == process_market(markets[i], CreatedAt(i, tick))
         IN  IF event # None
             THEN <<event>> \o ProcessFrom_StopAtFirst(markets, i + 1, tick)
             ELSE <<>>

\* lines 288-293: the events of the records that process_market accepts
RECURSIVE ProcessFrom(_, _, _)
ProcessFrom(markets, i, tick) ==
    IF i > Len(markets) THEN <<>>
    ELSE LET event == process_market(markets[i], CreatedAt(i, tick))
             rest == ProcessFrom(markets, i + 1, tick)
         IN  IF event # None THEN <<event>> \o rest ELSE rest

\* a cycle that stores nothing
StoreFrom_None(d, evs, i) == d

\* self.events[event.id] = event for each event of the list, in order
RECURSIVE StoreFrom(_, _, _)
StoreFrom(d, evs, i) ==
    IF i > Len(evs) THEN d ELSE StoreFrom(Put(d, evs[i].id, evs[i]), evs, i + 1)

RECURSIVE KeysFrom(_, _, _)
KeysFrom(keys, evs, i) ==
    IF i > Len(evs) THEN keys ELSE KeysFrom(PutKey(keys, evs[i].id), evs, i + 1)

fetch_and_process_markets(markets, tick) ==
    LET new_events == ProcessFrom(markets, 1, tick)
        now == DetectedNow(markets, tick)
    IN  \E d \in {detect_changes(previous_spikes, changes, new_events, now)} :
          /\ events' = StoreFrom(events, d.new_events, 1)
          /\ event_keys' = KeysFrom(event_keys, d.new_events, 1)
          /\ previous_spikes' = d.previous_spikes
          /\ changes' = d.self_changes
          /\ clock' = now
          /\ ret' = d.new_events
          /\ emitted' = d.changes

----------------------------------------------------------------------------
(* The feed.                                                               *)

RawRecord(id, v24, v1wk, prices) ==
    [id |-> id, volume24hr |-> v24, volume1wk |-> v1wk, outcomePrices |-> prices]

GoodPrices == "[\"0.6\", \"0.4\"]"

\* The records of the main specification: for "a" the ratios absent (100 a day
\* of 700 a week), 2.0 and 2.2, for "b" the ratio 1.3 and a week without volume,
\* and one record whose volume is null.
Records ==
    { RawRecord("a", Num(v24), Num(700), GoodPrices) : v24 \in {100, 200, 220} }
      \cup { RawRecord("b", Num(130), Num(v1wk), GoodPrices) : v1wk \in {0, 700} }
      \cup { RawRecord("a", None, Num(700), GoodPrices) }

\* The batches of the main specification: the feed returns no record (also
\* what get_markets makes of an HTTP error), one record, or two records, which
\* may carry the same id.
Batches ==
    {<< >>} \cup { <<r>> : r \in Records } \cup { <<r, q>> : r \in Records, q \in Records }

----------------------------------------------------------------------------
(* The main specification: poll cycles and lock toggles.                   *)

Init ==
    /\ events = << >>
    /\ event_keys = << >>
    /\ previous_spikes = << >>
    /\ changes = << >>
    /\ clock = 0
    /\ ret = << >>
    /\ emitted = << >>
    /\ fed = << >>
    /\ call = << >>
    /\ running = FALSE
    /\ polling_task = Task("none", 0)
    /\ closed = FALSE
    /\ lifespan = "startup"
    /\ inflight = << >>

\* one poll cycle (the startup fetch, a loop iteration or POST /refresh)
PollCycle ==
    /\ clock < MaxTime
    /\ \E markets \in Batches :
         \E tick \in 1..(Len(markets) + 1) :
            fetch_and_process_markets(markets, tick)
    /\ UNCHANGED <<fed, call, loopvars>>

\* routes.py toggle_event_lock on a stored id
ToggleLock ==
    /\ \E event_id \in DOMAIN events :
         events' = [events EXCEPT ![event_id].locked = ~events[event_id].locked]
    /\ UNCHANGED <<event_keys, previous_spikes, changes, clock, ret, emitted, fed, call, loopvars>>

Next == PollCycle \/ ToggleLock

Spec == Init /\ [][Next]_vars

----------------------------------------------------------------------------
(* SpecRatio: one market polled cycle after cycle, its 24-hour volume      *)
(* drawn anew each cycle (700 a week, so the ratio is volume24hr / 100);   *)
(* fed keeps what the feed returned.  The clock ticks once per cycle,      *)
(* after the record is processed, so the events of cycle k carry the       *)
(* timestamp k.                                                            *)

RatioBatches ==
    { <<RawRecord("a", Num(v24), Num(700), GoodPrices)>> :
        v24 \in {100, 190, 200, 205, 210, 215, 220} }

RatioCycle ==
    /\ clock < MaxTimeRatio
    /\ \E markets \in RatioBatches :
         /\ fetch_and_process_markets(markets, Len(markets) + 1)
         /\ fed' = Append(fed, markets)
    /\ UNCHANGED <<call, loopvars>>

NextRatio == RatioCycle

SpecRatio == Init /\ [][NextRatio]_vars

\* the ratio the feed gave the market in cycle k (None before the first cycle)
FedRatio(k) ==
    IF k = 0 THEN None
    ELSE calculate_volume_spike(fed[k][1].volume24hr[1], fed[k][1].volume1wk[1])

FedRatios == [k \in 1..Len(fed) |-> FedRatio(k)]

\* the change types of the log entries with timestamp k, in log order
TypesAt(k) ==
    LET At(c) == c.timestamp = k
        at == SelectSeq(changes, At)
    IN  [i \in 1..Len(at) |-> at[i].changeType]

ChangeTypes == [i \in 1..Len(changes) |-> changes[i].changeType]

RatEq(x, y) == x[1] * y[2] = y[1] * x[2]

\* old * 1.05 and old * 0.95
Up5(old) == <<old[1] * 105, old[2] * 100>>
Down5(old) == <<old[1] * 95, old[2] * 100>>

(* C1: in every cycle the transition from the previous cycle's spike entry  *)
(* to the new ratio is classified: absent -> present gives exactly one      *)
(* new_spike, present -> absent exactly one spike_removed, absent -> absent *)
(* nothing; and the ratios absent, 2.0, 2.2, 2.15, absent over five cycles  *)
(* give exactly new_spike, spike_increased, spike_removed, in that order.   *)
C1_Classification ==
    /\ \A k \in 1..Len(fed) :
         LET old == FedRatio(k - 1)
             new == FedRatio(k)
         IN  /\ (old = None /\ new # None) => TypesAt(k) = <<"new_spike">>
             /\ (old # None /\ new = None) => TypesAt(k) = <<"spike_removed">>
             /\ (old = None /\ new = None) => TypesAt(k) = << >>
    /\ FedRatios = <<None, <<2, 1>>, <<11, 5>>, <<43, 20>>, None>>
         => /\ ChangeTypes = <<"new_spike", "spike_increased", "spike_removed">>
            /\ TypesAt(2) = <<"new_spike">>
            /\ TypesAt(3) = <<"spike_increased">>
            /\ TypesAt(4) = << >>
            /\ TypesAt(5) = <<"spike_removed">>

C1_Witness ==
    /\ FedRatios = <<None, <<2, 1>>, <<11, 5>>, <<43, 20>>, None>>
    /\ Len(changes) = 3

(* C2 as claimed: a new ratio of at least 1.05 times the previous one, the  *)
(* boundary included, gives a spike_increased event.                        *)
C2_IncreasedFromBoundary ==
    \A k \in 1..Len(fed) :
        LET old == FedRatio(k - 1)
            new == FedRatio(k)
        IN  (old # None /\ new # None /\ RatLeq(Up5(old), new))
                => TypesAt(k) = <<"spike_increased">>

(* C2 amended: a new ratio strictly above 1.05 times the previous one gives *)
(* exactly one spike_increased event; at exactly 1.05 times the previous    *)
(* one the cycle emits no event.                                            *)
C2_IncreasedStrictly ==
    \A k \in 1..Len(fed) :
        LET old == FedRatio(k - 1)
            new == FedRatio(k)
        IN  (old # None /\ new # None)
                => /\ RatLt(Up5(old), new) => TypesAt(k) = <<"spike_increased">>
                   /\ RatEq(Up5(old), new) => TypesAt(k) = << >>

C2_Witness ==
    /\ \E k \in 1..Len(fed) :
         /\ FedRatio(k - 1) = <<2, 1>> /\ FedRatio(k) = <<21, 10>>
         /\ TypesAt(k) = << >>
    /\ \E k \in 1..Len(fed) :
         /\ FedRatio(k - 1) = <<2, 1>> /\ FedRatio(k) = <<11, 5>>
         /\ TypesAt(k) = <<"spike_increased">>

(* C3 as claimed: a new ratio of at most 0.95 times the previous one, the   *)
(* boundary included, gives a spike_decreased event.                        *)
C3_DecreasedFromBoundary ==
    \A k \in 1..Len(fed) :
        LET old == FedRatio(k - 1)
            new == FedRatio(k)
        IN  (old # None /\ new # None /\ RatLeq(new, Down5(old)))
                => TypesAt(k) = <<"spike_decreased">>

(* C3 amended: a new ratio strictly below 0.95 times the previous one gives *)
(* exactly one spike_decreased event; at exactly 0.95 times the previous    *)
(* one the cycle emits no event.                                            *)
C3_DecreasedStrictly ==
    \A k \in 1..Len(fed) :
        LET old == FedRatio(k - 1)
            new == FedRatio(k)
        IN  (old # None /\ new # None)
                => /\ RatLt(new, Down5(old)) => TypesAt(k) = <<"spike_decreased">>
                   /\ RatEq(new, Down5(old)) => TypesAt(k) = << >>

C3_Witness ==
    /\ \E k \in 1..Len(fed) :
         /\ FedRatio(k - 1) = <<2, 1>> /\ FedRatio(k) = <<19, 10>>
         /\ TypesAt(k) = << >>
    /\ \E k \in 1..Len(fed) :
         /\ FedRatio(k - 1) = <<11, 5>> /\ FedRatio(k) = <<2, 1>>
         /\ TypesAt(k) = <<"spike_decreased">>

(* C4: when the previous and the new ratio are both present and the new one *)
(* lies strictly between 0.95 and 1.05 times the previous one, the cycle    *)
(* emits no event and the change log gains no entry.                        *)
C4_WithinBandNoEvent ==
    \A k \in 1..Len(fed) :
        LET old == FedRatio(k - 1)
            new == FedRatio(k)
        IN  (old # None /\ new # None /\ RatLt(Down5(old), new) /\ RatLt(new, Up5(old)))
                => /\ TypesAt(k) = << >>
                   /\ k = Len(fed) => emitted = << >>

C4_Witness ==
    \E k \in 1..Len(fed) :
        /\ FedRatio(k - 1) = <<11, 5>> /\ FedRatio(k) = <<43, 20>>
        /\ k = Len(fed) /\ emitted = << >>

----------------------------------------------------------------------------
(* Claims about the store, checked on Spec.                                *)

(* C5: one poll cycle emits at most one ChangeEvent per entity id, whatever *)
(* the batch, also when an id occurs in more than one record.               *)
C5_AtMostOneEventPerId ==
    \A i, j \in 1..Len(emitted) :
        i # j => emitted[i].eventId # emitted[j].eventId

C9_PreviousMatchesStore ==
    /\ DOMAIN previous_spikes = { id \in DOMAIN events : events[id].volumeSpike # None }
    /\ \A id \in DOMAIN previous_spikes : previous_spikes[id] = events[id].volumeSpike

C9_Witness ==
    /\ "a" \in DOMAIN previous_spikes
    /\ "b" \in DOMAIN events /\ "b" \notin DOMAIN previous_spikes
    /\ \E c \in 1..Len(changes) :
         changes[c].eventId = "b" /\ changes[c].changeType = "spike_removed"

(* C10: when a cycle classifies a market as new_spike or spike_increased,   *)
(* the stored market's detectedAt after the cycle is the cycle's detection  *)
(* time, the timestamp of the event emitted for it.                         *)
C10_BumpedToNow ==
    \A i \in 1..Len(emitted) :
        Bumps(emitted[i].changeType)
            => events[emitted[i].eventId].detectedAt = emitted[i].timestamp

\* the change types the last cycle emitted for event_id
TypesFor(log, event_id) ==
    { log[i].changeType : i \in { j \in 1..Len(log) : log[j].eventId = event_id } }

(* C11: across a step, a stored market's detectedAt changes only if the     *)
(* step's cycle classified it as new_spike or spike_increased; a market     *)
(* classified spike_decreased or spike_removed, or with no event, keeps     *)
(* the detectedAt it had before the cycle.                                  *)
C11_DetectedAtOnlyBumped ==
    [][\A id \in DOMAIN events :
          (id \in DOMAIN events' /\ events'[id].detectedAt # events[id].detectedAt)
              => \E t \in TypesFor(emitted', id) : Bumps(t)]_vars

----------------------------------------------------------------------------
(* SpecSpike: one call of calculate_volume_spike on a grid of volumes.     *)

SpikeVolume24hr == {-100, 0, 100, 129, 130, 131, 150, 200}
SpikeVolume1wk == {-700, -1, 0, 1, 7, 70, 700, 1400}

InitSpike ==
    /\ events = << >>
    /\ event_keys = << >>
    /\ previous_spikes = << >>
    /\ changes = << >>
    /\ clock = 0
    /\ ret = << >>
    /\ emitted = << >>
    /\ fed = << >>
    /\ \E v24 \in SpikeVolume24hr, v1wk \in SpikeVolume1wk :
         call = [args |-> <<v24, v1wk>>, done |-> FALSE, result |-> None]
    /\ running = FALSE
    /\ polling_task = Task("none", 0)
    /\ closed = FALSE
    /\ lifespan = "startup"
    /\ inflight = << >>

CallSpike ==
    /\ ~call.done
    /\ call' = [call EXCEPT !.done = TRUE,
                            !.result = calculate_volume_spike(call.args[1], call.args[2])]
    /\ UNCHANGED <<events, event_keys, previous_spikes, changes, clock, ret, emitted, fed, loopvars>>

NextSpike == CallSpike

SpecSpike == InitSpike /\ [][NextSpike]_vars

----------------------------------------------------------------------------
(* SpecLog: one market whose spike comes and goes, polled until the change *)
(* log has overflowed.  The clock may stand still over a cycle.            *)

LogBatches ==
    { <<RawRecord("a", Num(v24), Num(700), GoodPrices)>> : v24 \in {100, 200} }

LogCycle ==
    /\ \E markets \in LogBatches :
         \E tick \in 1..(Len(markets) + 2) :
            /\ DetectedNow(markets, tick) <= MaxTimeLog
            /\ fetch_and_process_markets(markets, tick)
    /\ UNCHANGED <<fed, call, loopvars>>

NextLog == LogCycle

SpecLog == Init /\ [][NextLog]_vars

(* C6: the change log never holds more than MAX_CHANGES = 100 entries; an   *)
(* event appended to a full log drops exactly the oldest entry and leaves   *)
(* the other 99 in their order (below 100 entries nothing is dropped).      *)
C6_BoundedLog ==
    /\ [](Len(changes) <= 100)
    /\ [][emitted' # << >> =>
            /\ Len(emitted') = 1
            /\ Len(changes) = 100 =>
                 /\ Len(changes') = 100
                 /\ SubSeq(changes', 1, 99) = SubSeq(changes, 2, 100)
                 /\ changes'[100] = emitted'[1]
            /\ Len(changes) < 100 => changes' = Append(changes, emitted'[1])]_vars

\* the log is full and its oldest entry is not the first event ever logged
C6_Witness ==
    /\ Len(changes) = 100
    /\ changes[1].changeType = "spike_removed"
    /\ changes[100].timestamp > changes[1].timestamp

----------------------------------------------------------------------------
(* The read handlers.  call holds the request being answered: its          *)
(* operation, arguments and result (None after a cycle of the poll loop).  *)

Min(m, n) == IF m < n THEN m ELSE n

\* an unhandled exception: the framework answers 500
NotFound_ServerError == [status_code |-> 500]

\* HTTPException(status_code = 404)
NotFound == [status_code |-> 404]

\* the key without detectedAt: the ratio ranks first, then the volume
SortKey_SpikeFirst(e) ==
    <<0, IF e.volumeSpike # None THEN e.volumeSpike ELSE <<0, 1>>, e.volume24hr>>

\* the key of lines 334-338; `e.volumeSpike if e.volumeSpike else 0`
SortKey(e) ==
    <<e.detectedAt, IF e.volumeSpike # None THEN e.volumeSpike ELSE <<0, 1>>, e.volume24hr>>

\* tuple comparison x < y of two keys (the ratios are in lowest terms)
KeyLt(x, y) ==
    \/ x[1] < y[1]
    \/ x[1] = y[1] /\ RatLt(x[2], y[2])
    \/ x[1] = y[1] /\ x[2] = y[2] /\ x[3] < y[3]

\* InsertReverse putting e before the entries whose key is not smaller:
\* an ascending sort
InsertReverse_Ascending(sorted, e) ==
    LET n == Cardinality({ i \in 1..Len(sorted) : KeyLt(SortKey(sorted[i]), SortKey(e)) })
    IN  SubSeq(sorted, 1, n) \o <<e>> \o SubSeq(sorted, n + 1, Len(sorted))

\* e, the next entry of the list, takes its place in the sorted part: behind
\* every entry whose key is not smaller (the sort is stable, also in reverse)
InsertReverse(sorted, e) ==
    LET n == Cardinality({ i \in 1..Len(sorted) : ~KeyLt(SortKey(sorted[i]), SortKey(e)) })
    IN  SubSeq(sorted, 1, n) \o <<e>> \o SubSeq(sorted, n + 1, Len(sorted))

\* list.sort(key = SortKey, reverse = True) of the first n entries of list
RECURSIVE SortReverse(_, _)
SortReverse(list, n) ==
    IF n = 0 THEN << >> ELSE InsertReverse(SortReverse(list, n - 1), list[n])

\* get_frontier_events on the dict evs whose keys are in the order keys
Frontier(evs, keys, limit, spike_only) ==
    LET values == [i \in 1..Len(keys) |-> evs[keys[i]]]
        HasSpike(e) == e.volumeSpike # None
        filtered == IF spike_only THEN SelectSeq(values, HasSpike) ELSE values
        sorted == SortReverse(filtered, Len(filtered))
    IN  SubSeq(sorted, 1, Min(limit, Len(sorted)))

get_frontier_events(limit, spike_only) == Frontier(events, event_keys, limit, spike_only)

Reverse(list) == [i \in 1..Len(list) |-> list[Len(list) + 1 - i]]

\* get_changes_since with >= for > (an entry stamped `since` is returned)
get_changes_since_Geq(since) ==
    LET After(change) == change.timestamp >= since
    IN  Reverse(SelectSeq(changes, After))

\* get_changes_since without the reverse of line 374: oldest first
get_changes_since_OldestFirst(since) ==
    LET After(change) == change.timestamp > since
    IN  SelectSeq(changes, After)

get_changes_since(since) ==
    LET After(change) == change.timestamp > since
    IN  Reverse(SelectSeq(changes, After))

----------------------------------------------------------------------------
(* SpecQuery: poll cycles on two markets, and calls of get_frontier_events *)
(* and get_changes_since in between.                                       *)

MaxTimeQuery == 3    \* SpecQuery: the clock readings are 0..MaxTimeQuery

\* "a" without a spike and with the ratio 2.0, "b" with the ratio 2.0
QueryRecords ==
    { RawRecord("a", Num(v24), Num(700), GoodPrices) : v24 \in {100, 200} }
      \cup { RawRecord("b", Num(200), Num(700), GoodPrices) }

QueryBatches ==
    {<< >>} \cup { <<r>> : r \in QueryRecords }
      \cup { p \in QueryRecords \X QueryRecords : p[1].id # p[2].id }

\* the limits of GET /events (1..100) that tell apart on a store of two
Limits == {1, 2, 100}

Sinces == 0..MaxTimeQuery

QueryCycle ==
    /\ clock < MaxTimeQuery
    /\ \E markets \in QueryBatches :
         \E tick \in 1..(Len(markets) + 1) :
            fetch_and_process_markets(markets, tick)
    /\ call' = None
    /\ UNCHANGED <<fed, loopvars>>

FrontierCall ==
    /\ \E limit \in Limits, spike_only \in BOOLEAN :
         call' = [op |-> "get_frontier_events",
                  args |-> <<limit, spike_only>>,
                  result |-> get_frontier_events(limit, spike_only)]
    /\ UNCHANGED <<events, event_keys, previous_spikes, changes, clock, ret, emitted, fed, loopvars>>

ChangesSinceCall ==
    /\ \E since \in Sinces :
         call' = [op |-> "get_changes_since",
                  args |-> <<since>>,
                  result |-> get_changes_since(since)]
    /\ UNCHANGED <<events, event_keys, previous_spikes, changes, clock, ret, emitted, fed, loopvars>>

NextQuery == QueryCycle \/ FrontierCall \/ ChangesSinceCall

SpecQuery == Init /\ [][NextQuery]_vars

\* the request being answered is a call of op
Answering(op) == call # None /\ call.op = op

\* key(x) > key(y) for the key (detectedAt, spikeRatio-or-0, volume24hr)
RatioOrZero(e) == IF e.volumeSpike # None THEN e.volumeSpike ELSE <<0, 1>>
KeyGt(x, y) ==
    LET rx == RatioOrZero(x)
        ry == RatioOrZero(y)
    IN  \/ x.detectedAt > y.detectedAt
        \/ /\ x.detectedAt = y.detectedAt
           /\ rx[1] * ry[2] > ry[1] * rx[2]
        \/ /\ x.detectedAt = y.detectedAt
           /\ rx[1] * ry[2] = ry[1] * rx[2]
           /\ x.volume24hr > y.volume24hr

\* the stored ids a call with spike_only may return
Eligible(spike_only) ==
    { id \in DOMAIN events : spike_only => events[id].volumeSpike # None }

KeyOrders ==
    { keys \in [1..Len(event_keys) -> DOMAIN events] :
        \A i, j \in 1..Len(keys) : i # j => keys[i] # keys[j] }

(* C13: the frontier ranking is a total order: of two distinct stored       *)
(* markets exactly one precedes the other under the key (detectedAt,        *)
(* ratio, volume24hr), so the list get_frontier_events returns is the same  *)
(* whatever the order in which the markets entered the store.               *)
C13_TotalOrder ==
    /\ \A x, y \in DOMAIN events :
         x # y => KeyGt(events[x], events[y]) \/ KeyGt(events[y], events[x])
    /\ \A keys \in KeyOrders :
         \A limit \in Limits, spike_only \in BOOLEAN :
            Frontier(events, keys, limit, spike_only)
                = Frontier(events, event_keys, limit, spike_only)

\* the k-th index from the end of the log among those stamped after since
LaterIndex(since, k) ==
    LET after == { i \in 1..Len(changes) : changes[i].timestamp > since }
    IN  CHOOSE i \in after : Cardinality({ j \in after : j > i }) = k - 1

(* C16: get_changes_since(t) returns exactly the change-log entries whose   *)
(* timestamp is strictly greater than t, each once, the most recently       *)
(* appended first.                                                          *)
C16_ChangesSince ==
    Answering("get_changes_since") =>
        LET since == call.args[1]
            r == call.result
            after == { i \in 1..Len(changes) : changes[i].timestamp > since }
        IN  /\ Len(r) = Cardinality(after)
            /\ \A k \in 1..Len(r) :
                 /\ r[k] = changes[LaterIndex(since, k)]
                 /\ r[k].timestamp > since
            /\ \A i \in 1..Len(changes) :
                 changes[i].timestamp <= since
                    => \A k \in 1..Len(r) : r[k] # changes[i]

\* the log holds an entry stamped t and two different entries stamped later;
\* the call returns exactly these two, the last appended first
C16_Witness ==
    /\ Answering("get_changes_since")
    /\ \E i \in 1..Len(changes) : changes[i].timestamp = call.args[1]
    /\ Len(call.result) = 2
    /\ Len(changes) > 2
    /\ call.result[1] = changes[Len(changes)]
    /\ call.result[2] = changes[Len(changes) - 1]
    /\ call.result[1] # call.result[2]

----------------------------------------------------------------------------
(* SpecLock: poll cycles on two markets, and GET /events/{id} and          *)
(* POST /events/{id}/lock for the two ids and for an id never fed.         *)

LockIds == Ids \cup {"zz"}

\* routes.py get_event
get_event(event_id) ==
    LET event == Get(events, event_id)
    IN  /\ call' = [op |-> "get_event",
                    args |-> <<event_id>>,
                    result |-> IF event = None THEN NotFound ELSE event]
        /\ UNCHANGED <<events, event_keys, previous_spikes, changes, clock, ret, emitted, fed, loopvars>>

\* toggle_event_lock with `event.locked = True` for the negation
toggle_event_lock_SetTrue(event_id) ==
    LET event == Get(events, event_id)
    IN  /\ IF event = None
           THEN /\ call' = [op |-> "toggle_event_lock", args |-> <<event_id>>,
                            result |-> NotFound]
                /\ UNCHANGED events
           ELSE /\ events' = [events EXCEPT ![event_id].locked = TRUE]
                /\ call' = [op |-> "toggle_event_lock", args |-> <<event_id>>,
                            result |-> [id |-> event_id, locked |-> TRUE]]
        /\ UNCHANGED <<event_keys, previous_spikes, changes, clock, ret, emitted, fed, loopvars>>

\* routes.py toggle_event_lock
toggle_event_lock(event_id) ==
    LET event == Get(events, event_id)
    IN  /\ IF event = None
           THEN /\ call' = [op |-> "toggle_event_lock", args |-> <<event_id>>,
                            result |-> NotFound]
                /\ UNCHANGED events
           ELSE /\ events' = [events EXCEPT ![event_id].locked = ~event.locked]
                /\ call' = [op |-> "toggle_event_lock", args |-> <<event_id>>,
                            result |-> [id |-> event_id, locked |-> ~event.locked]]
        /\ UNCHANGED <<event_keys, previous_spikes, changes, clock, ret, emitted, fed, loopvars>>

GetEventCall == \E event_id \in LockIds : get_event(event_id)

ToggleLockCall == \E event_id \in LockIds : toggle_event_lock(event_id)

NextLock == QueryCycle \/ GetEventCall \/ ToggleLockCall

SpecLock == Init /\ [][NextLock]_vars

\* the step answers a call of op
Answers(op) == call' # None /\ call'.op = op

(* C14: toggle-lock on a known id flips that market's locked flag and       *)
(* changes nothing else: no other field of that market, no other market,    *)
(* not the key order, not previous_spikes, not the change log; it answers   *)
(* the new flag, and a second toggle of the same id right after the first   *)
(* gives the flag the value it had before the first.                        *)
C14_ToggleFlipsOnly ==
    /\ [][(Answers("toggle_event_lock") /\ call'.args[1] \in DOMAIN events) =>
            LET id == call'.args[1]
            IN  /\ DOMAIN events' = DOMAIN events
                /\ events'[id].locked = ~events[id].locked
                /\ events'[id] = [events[id] EXCEPT !.locked = events'[id].locked]
                /\ \A other \in DOMAIN events \ {id} : events'[other] = events[other]
                /\ UNCHANGED <<event_keys, previous_spikes, changes>>
                /\ call'.result = [id |-> id, locked |-> events'[id].locked]
                /\ (Answering("toggle_event_lock") /\ call.args = call'.args)
                      => events'[id].locked = ~call.result.locked]_vars
    /\ []((Answering("toggle_event_lock") /\ call.result # [status_code |-> 404])
            => call.result.locked = events[call.args[1]].locked)

\* "a" has been toggled back to unlocked (a cycle stores markets unlocked),
\* next to a second market, a spike entry and a logged event
C14_Witness ==
    /\ Answering("toggle_event_lock")
    /\ call.args = <<"a">>
    /\ call.result = [id |-> "a", locked |-> FALSE]
    /\ "b" \in DOMAIN events /\ events["b"].locked
    /\ previous_spikes # << >>
    /\ changes # << >>

(* C15: get(id) and toggle-lock(id) on an id that is not in the store       *)
(* answer not-found (404) and leave the markets, their key order,           *)
(* previous_spikes and the change log as they were.                         *)
C15_LookupMiss ==
    /\ [][((Answers("get_event") \/ Answers("toggle_event_lock"))
              /\ call'.args[1] \notin DOMAIN events)
            => /\ call'.result = [status_code |-> 404]
               /\ UNCHANGED <<events, event_keys, previous_spikes, changes>>]_vars
    /\ []((Answering("get_event") \/ Answering("toggle_event_lock"))
            => (call.result = [status_code |-> 404] <=> call.args[1] \notin DOMAIN events))

\* a toggle of an unknown id answered 404 on a store with markets and events
C15_Witness ==
    /\ Answering("toggle_event_lock")
    /\ call.args = <<"zz">>
    /\ call.result = [status_code |-> 404]
    /\ DOMAIN events = {"a", "b"}
    /\ changes # << >>

----------------------------------------------------------------------------
(* GammaMarketClient.get_markets and POST /refresh.  A response is what    *)
(* the request of line 58 comes to: a body that is a JSON list of records, *)
(* a failure of the transport, an error status, or a body that is no JSON. *)

Response(kind, body) == [kind |-> kind, body |-> body]

\* the outcomes that raise a subclass of httpx.HTTPError (lines 58-59)
HTTPErrors == {"ConnectError", "TimeoutException", "HTTPStatusError"}

Returns(value) == [raised |-> FALSE, value |-> value]
Raises == [raised |-> TRUE, value |-> << >>]

\* get_markets letting the httpx errors through
get_markets_Reraise(response) ==
    IF response.kind = "ok" THEN Returns(response.body) ELSE Raises

\* lines 57-65: response.json() raises json.JSONDecodeError, a ValueError,
\* which `except httpx.HTTPError` does not catch
get_markets(response) ==
    CASE response.kind = "ok" -> Returns(response.body)
      [] response.kind \in HTTPErrors -> Returns(<< >>)
      [] response.kind = "JSONDecodeError" -> Raises

\* `sum(1 for e in events if e.volumeSpike is not None)`
SpikeCount(list) == Cardinality({ i \in 1..Len(list) : list[i].volumeSpike # None })

\* routes.py force_refresh: an exception of the fetch leaves the coroutine
\* at line 278 and the route with it (the framework answers 500)
force_refresh(response, tick) ==
    LET markets == get_markets(response)
    IN  IF markets.raised
        THEN /\ call' = [op |-> "force_refresh", args |-> <<response>>,
                         result |-> [status_code |-> 500]]
             /\ UNCHANGED <<events, event_keys, previous_spikes, changes, clock,
                            ret, emitted>>
        ELSE /\ fetch_and_process_markets(markets.value, tick)
             /\ call' = [op |-> "force_refresh", args |-> <<response>>,
                         result |-> [status |-> "success",
                                     events_fetched |-> Len(ret'),
                                     spike_events |-> SpikeCount(ret')]]

----------------------------------------------------------------------------
(* SpecBatch: refreshes on batches with well-formed and malformed records  *)
(* and on failed requests.                                                 *)

MaxTimeBatch == 2    \* SpecBatch: the clock readings are 0..MaxTimeBatch

\* "a" (ratio 2.0) with every encoding of the prices, "a" with a null volume,
\* and "b" (ratio 1.3) well-formed; a batch holds up to two of them, or
\* three with unreadable prices in the middle one
BatchRecords ==
    { RawRecord("a", Num(200), Num(700), prices) : prices \in PriceStrings }
      \cup { RawRecord("a", None, Num(700), GoodPrices) }
      \cup { RawRecord("b", Num(130), Num(700), GoodPrices) }

Responses ==
    { Response("ok", << >>) }
      \cup { Response("ok", <<r>>) : r \in BatchRecords }
      \cup { Response("ok", <<r, q>>) : r \in BatchRecords, q \in BatchRecords }
      \cup { Response("ok", <<r, RawRecord("a", Num(200), Num(700), "abc"), q>>) :
                r \in BatchRecords, q \in BatchRecords }
      \cup { Response(kind, << >>) : kind \in HTTPErrors \cup {"JSONDecodeError"} }

RefreshCall ==
    /\ clock < MaxTimeBatch
    /\ \E response \in Responses :
         force_refresh(response, Len(response.body) + 1)
    /\ UNCHANGED <<fed, loopvars>>

NextBatch == RefreshCall

SpecBatch == Init /\ [][NextBatch]_vars

\* the records for which field extraction or validation raises: a null volume
\* (TypeError in the arithmetic), prices that neither parse reads
\* (ValueError), a first price outside [0, 1] (ValidationError)
Malformed(r) ==
    \/ r.volume24hr = None
    \/ r.volume1wk = None
    \/ r.outcomePrices \in {"abc", "[\"1.5\"]"}

\* the indices of the well-formed records of a batch
WellFormed(batch) == { i \in 1..Len(batch) : ~Malformed(batch[i]) }

\* the refresh being answered fetched a batch (the request did not fail)
Fetched == Answering("force_refresh") /\ call.args[1].kind = "ok"

(* C17: a batch of N records of which k are malformed produces exactly      *)
(* N - k Markets, those of the well-formed records in batch order, also of  *)
(* the ones behind a malformed record; the call does not raise.             *)
C17_SkipsMalformedOnly ==
    Fetched =>
        LET batch == call.args[1].body
            k == Cardinality({ i \in 1..Len(batch) : Malformed(batch[i]) })
        IN  /\ call.result # [status_code |-> 500]
            /\ call.result.events_fetched = Len(batch) - k
            /\ Len(ret) = Len(batch) - k
            /\ \A i \in WellFormed(batch) :
                 LET j == Cardinality({ h \in WellFormed(batch) : h <= i })
                 IN  /\ ret[j].id = batch[i].id
                     /\ ret[j].volume24hr = batch[i].volume24hr[1]
                     /\ ret[j].id \in DOMAIN events

\* a malformed record of "a" followed by the well-formed record of "b"
C17_Witness ==
    /\ Fetched
    /\ Len(call.args[1].body) = 2
    /\ Malformed(call.args[1].body[1])
    /\ call.args[1].body[1].outcomePrices = "abc"
    /\ call.args[1].body[2].id = "b"
    /\ Len(ret) = 1 /\ ret[1].id = "b"
    /\ "a" \notin DOMAIN events

\* the probability (in hundredths) the claim gives a price string: the first
\* price where a parse reads one, 0.5 where the list is empty or neither
\* parse reads the string
ClaimedProbability(prices) ==
    CASE prices = "[\"0.6\", \"0.4\"]" -> 60
      [] prices = "0.6, 0.4" -> 60
      [] prices = "[\"1.5\"]" -> 150
      [] OTHER -> 50

(* C18: whatever the encoding of the prices, the record yields a Market:    *)
(* with the first price as probability where the JSON parse or the          *)
(* comma-split reads one, with 0.5 where the list is empty or both parses   *)
(* fail; the encoding never makes the processor skip the record.  (Records  *)
(* with a null volume or a first price outside [0, 1] are left aside.)      *)
C18_PriceFallback ==
    Fetched =>
        LET batch == call.args[1].body
            concerned == { i \in 1..Len(batch) :
                             /\ batch[i].volume24hr # None
                             /\ batch[i].volume1wk # None
                             /\ ClaimedProbability(batch[i].outcomePrices) \in 0..100 }
        IN  /\ call.result # [status_code |-> 500]
            /\ Len(ret) = Cardinality(concerned)
            /\ \A i \in concerned :
                 LET j == Cardinality({ h \in concerned : h <= i })
                 IN  /\ ret[j].id = batch[i].id
                     /\ ret[j].probability = ClaimedProbability(batch[i].outcomePrices)

\* the request of the refresh being answered failed with an httpx error
FetchFailed == Answering("force_refresh") /\ call.args[1].kind \in HTTPErrors

(* C19: a cycle whose fetch fails with a network or HTTP error runs on the  *)
(* empty batch: markets, key order, previous_spikes and change log are as   *)
(* before, no ChangeEvent is emitted, no Market returned, and the caller    *)
(* gets its answer, no exception.                                           *)
C19_FailedFetchIsEmptyCycle ==
    /\ [][(Answers("force_refresh") /\ call'.args[1].kind \in HTTPErrors)
            => /\ UNCHANGED <<events, event_keys, previous_spikes, changes>>
               /\ emitted' = << >>
               /\ ret' = << >>
               /\ call'.result = [status |-> "success", events_fetched |-> 0,
                                  spike_events |-> 0]]_vars
    /\ [](FetchFailed => call.result # [status_code |-> 500])

\* a refresh with an error status after a cycle that stored and logged
C19_Witness ==
    /\ FetchFailed
    /\ call.args[1].kind = "HTTPStatusError"
    /\ DOMAIN events = {"a", "b"}
    /\ Len(changes) = 2
    /\ previous_spikes # << >>
    /\ emitted = << >>

(* C20: get_markets returns a list for every outcome of the request, the    *)
(* records on success and the empty list on a connection failure, a         *)
(* timeout, an error status or a body that is no JSON; it never raises, so  *)
(* no refresh fails because of the feed.                                    *)
C20_FetchNeverRaises ==
    Answering("force_refresh") =>
        /\ ~get_markets(call.args[1]).raised
        /\ call.result # [status_code |-> 500]
        /\ call.args[1].kind # "ok"
              => call.result = [status |-> "success", events_fetched |-> 0,
                                spike_events |-> 0]

----------------------------------------------------------------------------
(* The other read handlers: get_recent_changes, GET /events/changes and    *)
(* GET /events/spikes/summary.                                             *)

\* get_recent_changes without the reverse: the oldest entries, oldest first
get_recent_changes_Oldest(limit) == SubSeq(changes, 1, Min(limit, Len(changes)))

get_recent_changes(limit) ==
    LET changes_list == Reverse(changes)
    IN  SubSeq(changes_list, 1, Min(limit, Len(changes_list)))

\* The `since` parameter of GET /events/changes: absent (None), an ISO
\* timestamp with a UTC offset, one without an offset, or no timestamp.
Since(kind, t) == [kind |-> kind, t |-> t]

\* routes.py get_changes.  fromisoformat raises ValueError for a string that
\* is no timestamp (400); a timestamp without offset parses, and comparing it
\* with the log's timezone-aware timestamps raises TypeError (500).
get_changes(limit, since) ==
    IF since # None
    THEN CASE since.kind = "invalid" -> [status_code |-> 400]
           [] since.kind = "naive" ->
                IF changes # << >> THEN [status_code |-> 500]
                ELSE [changes |-> << >>, total |-> 0]
           [] since.kind = "aware" ->
                LET list == get_changes_since(since.t)
                IN  [changes |-> list, total |-> Len(list)]
    ELSE LET list == get_recent_changes(limit)
         IN  [changes |-> list, total |-> Len(list)]

\* sum(spike_ratios), a rational in lowest terms
RECURSIVE RatSum(_, _)
RatSum(list, n) ==
    IF n = 0 THEN <<0, 1>>
    ELSE LET rest == RatSum(list, n - 1)
         IN  Div(rest[1] * list[n][2] + list[n][1] * rest[2], rest[2] * list[n][2])

\* round(x, 2) of a ratio x >= 0, in hundredths (halves go up)
Round2(x) == (200 * x[1] + x[2]) \div (2 * x[2])

\* max(spike_events, key = ...): the first entry with the greatest ratio
TopSpike(spike_events) ==
    LET top == CHOOSE i \in 1..Len(spike_events) :
                 /\ \A j \in 1..Len(spike_events) :
                      ~RatLt(spike_events[i].volumeSpike, spike_events[j].volumeSpike)
                 /\ \A j \in 1..(i - 1) :
                      RatLt(spike_events[j].volumeSpike, spike_events[i].volumeSpike)
    IN  spike_events[top]

\* routes.py get_spike_summary
get_spike_summary ==
    LET all_events == [i \in 1..Len(event_keys) |-> events[event_keys[i]]]
        HasSpike(e) == e.volumeSpike # None
        spike_events == SelectSeq(all_events, HasSpike)
        spike_ratios == [i \in 1..Len(spike_events) |-> spike_events[i].volumeSpike]
    IN  IF spike_events = << >>
        THEN [total_events |-> Len(all_events), spike_events |-> 0,
              average_spike_ratio |-> 0, max_spike_ratio |-> 0,
              top_spike_event |-> None]
        ELSE LET sum == RatSum(spike_ratios, Len(spike_ratios))
                 top_spike == TopSpike(spike_events)
             IN  [total_events |-> Len(all_events),
                  spike_events |-> Len(spike_events),
                  average_spike_ratio |->
                      Round2(<<sum[1], sum[2] * Len(spike_ratios)>>),
                  max_spike_ratio |-> Round2(top_spike.volumeSpike),
                  top_spike_event |->
                      [id |-> top_spike.id,
                       spike_ratio |-> Round2(top_spike.volumeSpike),
                       volume24hr |-> top_spike.volume24hr]]

----------------------------------------------------------------------------
(* SpecRead: poll cycles on two markets and every read handler in between. *)

SinceParams ==
    {None} \cup { Since("aware", t) : t \in Sinces }
      \cup { Since("naive", 0), Since("invalid", 0) }

\* a handler that hands the log out by emptying it
RecentChangesCall_Drain ==
    /\ \E limit \in Limits :
         call' = [op |-> "get_recent_changes", args |-> <<limit>>,
                  result |-> get_recent_changes(limit)]
    /\ changes' = << >>
    /\ UNCHANGED <<events, event_keys, previous_spikes, clock, ret, emitted, fed, loopvars>>

RecentChangesCall ==
    /\ \E limit \in Limits :
         call' = [op |-> "get_recent_changes", args |-> <<limit>>,
                  result |-> get_recent_changes(limit)]
    /\ UNCHANGED <<events, event_keys, previous_spikes, changes, clock, ret, emitted, fed, loopvars>>

ChangesCall ==
    /\ \E limit \in Limits, since \in SinceParams :
         call' = [op |-> "get_changes", args |-> <<limit, since>>,
                  result |-> get_changes(limit, since)]
    /\ UNCHANGED <<events, event_keys, previous_spikes, changes, clock, ret, emitted, fed, loopvars>>

SpikeSummaryCall ==
    /\ call' = [op |-> "get_spike_summary", args |-> << >>,
                result |-> get_spike_summary]
    /\ UNCHANGED <<events, event_keys, previous_spikes, changes, clock, ret, emitted, fed, loopvars>>

NextRead ==
    \/ QueryCycle
    \/ FrontierCall
    \/ ChangesSinceCall
    \/ RecentChangesCall
    \/ ChangesCall
    \/ SpikeSummaryCall
    \/ GetEventCall

SpecRead == Init /\ [][NextRead]_vars

ReadOps ==
    {"get_frontier_events", "get_changes_since", "get_recent_changes",
     "get_changes", "get_spike_summary", "get_event"}

(* C24: the read operations get_frontier_events, get_recent_changes,        *)
(* get_changes_since, get-by-id and the spike summary leave the markets     *)
(* map with every market field, its key order, previous_spikes and the      *)
(* change log unchanged, for any arguments; among poll cycles and reads     *)
(* only a poll cycle changes any of them.                                   *)
C24_ReadsWriteNothing ==
    /\ [][(call' # None /\ call'.op \in ReadOps)
            => UNCHANGED <<events, event_keys, previous_spikes, changes>>]_vars
    /\ [][<<events, event_keys, previous_spikes, changes>>'
              # <<events, event_keys, previous_spikes, changes>>
            => call' = None /\ clock' # clock]_vars

\* the summary of a store with a spiking market, a logged event and a
\* previous-spike entry has been answered
C24_Witness ==
    /\ Answering("get_spike_summary")
    /\ call.result.spike_events = 1
    /\ call.result.total_events = 2
    /\ previous_spikes # << >>
    /\ Len(changes) >= 2

\* the entries of the log from the end: the k-th last
FromEnd(k) == changes[Len(changes) + 1 - k]

(* C27: get_recent_changes(limit) with limit >= 1 returns exactly the       *)
(* min(limit, log length) most recently appended entries, the most recent   *)
(* first; the log is as it was.                                             *)
C27_RecentChanges ==
    /\ [](Answering("get_recent_changes") =>
            LET limit == call.args[1]
                r == call.result
            IN  /\ Len(r) = Min(limit, Len(changes))
                /\ \A k \in 1..Len(r) : r[k] = FromEnd(k))
    /\ [][(call' # None /\ call'.op = "get_recent_changes") => changes' = changes]_vars

\* limit 2 on a log of more than two entries, the last two of them different
C27_Witness ==
    /\ Answering("get_recent_changes")
    /\ call.args = <<2>>
    /\ Len(changes) > 2
    /\ Len(call.result) = 2
    /\ call.result[1] = changes[Len(changes)]
    /\ call.result[1] # call.result[2]

(* C28: GET /events/changes returns at most limit changes for every         *)
(* request, with or without a since timestamp.                              *)
C28_AtMostLimit ==
    Answering("get_changes") =>
        \/ call.result \in {[status_code |-> 400], [status_code |-> 500]}
        \/ /\ Len(call.result.changes) <= call.args[1]
           /\ call.result.total <= call.args[1]

\* the rank of an entry by ratio: the ratio, or 0 without one
HigherRatio(x, y) ==
    LET rx == RatioOrZero(x)
        ry == RatioOrZero(y)
    IN  rx[1] * ry[2] > ry[1] * rx[2]

----------------------------------------------------------------------------
(* Claims about the events of one cycle, checked on SpecBatch and SpecLog. *)

\* the batch of the refresh being answered (empty when the request failed)
AnsweredBatch == call.args[1].body

(* C25: the ChangeEvents of one cycle sit in the order of the batch records *)
(* they are about, all carry the same timestamp, the cycle's detection      *)
(* time, and are appended to the change log in that order.                  *)
C25_EventsInBatchOrder ==
    (Answering("force_refresh") /\ call.result # [status_code |-> 500]) =>
        /\ \A i \in 1..Len(emitted) : emitted[i].timestamp = clock
        /\ \E f \in [1..Len(emitted) -> 1..Len(AnsweredBatch)] :
             /\ \A i, j \in 1..Len(emitted) : i < j => f[i] < f[j]
             /\ \A i \in 1..Len(emitted) :
                  /\ AnsweredBatch[f[i]].id = emitted[i].eventId
                  /\ ~Malformed(AnsweredBatch[f[i]])
        /\ Len(changes) >= Len(emitted)
        /\ SubSeq(changes, Len(changes) - Len(emitted) + 1, Len(changes)) = emitted

\* a cycle on "b" then "a" logged the event of "b" before the event of "a",
\* behind an older entry
C25_Witness ==
    /\ Answering("force_refresh")
    /\ Len(AnsweredBatch) >= 2
    /\ AnsweredBatch[1].id = "b"
    /\ Len(emitted) = 2
    /\ emitted[1].eventId = "b" /\ emitted[2].eventId = "a"
    /\ changes = emitted

(* C30: a refresh that returns has run one cycle on the batch it fetched:   *)
(* the list it returns holds exactly the Markets of the records processed   *)
(* successfully, in batch order; every returned id is a key of the store,   *)
(* mapped to the last Market returned for it; the other stored markets are  *)
(* as before; the events emitted are stamped with this cycle's one          *)
(* detection time; the route reports the length of the list.                *)
C30_RefreshRunsOneCycle ==
    [][(Answers("force_refresh") /\ call'.result # [status_code |-> 500]) =>
         LET batch == call'.args[1].body
             wf == WellFormed(batch)
             returned == { ret'[j].id : j \in 1..Len(ret') }
         IN  /\ clock' = clock + 1
             /\ Len(ret') = Cardinality(wf)
             /\ call'.result.events_fetched = Len(ret')
             /\ \A i \in wf :
                  LET j == Cardinality({ h \in wf : h <= i })
                  IN  /\ ret'[j].id = batch[i].id
                      /\ ret'[j].volume24hr = batch[i].volume24hr[1]
                      /\ ret'[j].volume1wk = batch[i].volume1wk[1]
             /\ DOMAIN events' = DOMAIN events \cup returned
             /\ \A id \in returned :
                  \E j \in 1..Len(ret') :
                     /\ ret'[j].id = id
                     /\ \A h \in (j + 1)..Len(ret') : ret'[h].id # id
                     /\ events'[id] = ret'[j]
             /\ \A id \in DOMAIN events \ returned : events'[id] = events[id]
             /\ \A i \in 1..Len(emitted') : emitted'[i].timestamp = clock']_vars

\* a second refresh returned both markets, after a first that stored one
C30_Witness ==
    /\ Answering("force_refresh")
    /\ clock = 2
    /\ call.result = [status |-> "success", events_fetched |-> 2, spike_events |-> 2]
    /\ Len(ret) = 2 /\ ret[1].id = "a" /\ ret[2].id = "b"
    /\ Len(changes) = 2
    /\ changes[1].timestamp = 1 /\ changes[2].timestamp = 2

(* C26: across any step the new change log is a suffix of the old one       *)
(* followed by the events of that step: entries are appended at the tail    *)
(* and dropped from the head, only when the log would exceed 100; no entry  *)
(* is modified or reordered.                                                *)
C26_LogAppendOnly ==
    [][\E k \in 0..Len(changes) :
          /\ changes' = SubSeq(changes, k + 1, Len(changes)) \o emitted'
          /\ k > 0 => Len(changes') = 100
          /\ Len(changes) + Len(emitted') <= 100 => k = 0]_vars

\* the log has overflowed: it is full and starts with a spike_removed of the
\* last clock reading, while the first entry ever logged was a new_spike
C26_Witness ==
    /\ Len(changes) = 100
    /\ changes[1].changeType = "spike_removed"
    /\ changes[1].timestamp = MaxTimeLog
    /\ changes[100].changeType = "new_spike"

----------------------------------------------------------------------------
(* The poll loop (start_polling, stop_polling) and the lifespan of the     *)
(* application.  All coroutines run on one asyncio event loop: a task runs *)
(* until its next await, so an action is the code between two awaits.      *)
(* polling_task.pc is "none" (no task), "created" (scheduled, not yet      *)
(* run), "fetching" (suspended in client.get), "sleeping" (suspended in    *)
(* asyncio.sleep), "done" (returned) or "cancelled".                       *)

interval == 7        \* app.py: start_polling(interval=7)

MaxTimeLoop == 2     \* the loop: a clock reading of MaxTimeLoop stands for every later one

\* the clock ticks once in a cycle (before detect_changes) until it reads
\* MaxTimeLoop and stands still from then on
LoopTick(markets) ==
    IF clock < MaxTimeLoop THEN Len(markets) + 1 ELSE Len(markets) + 2

\* what a request of the loop comes to: "a" without a spike or with the
\* ratio 2.0, a record with a null volume, "a" twice in one batch, an error
\* status, a body that is no JSON
LoopResponses ==
    { Response("ok", <<RawRecord("a", Num(v24), Num(700), GoodPrices)>>) : v24 \in {100, 200} }
      \cup { Response("ok", <<RawRecord("a", None, Num(700), GoodPrices)>>) }
      \cup { Response("ok", <<RawRecord("a", Num(200), Num(700), GoodPrices),
                              RawRecord("a", Num(100), Num(700), GoodPrices)>>) }
      \cup { Response("HTTPStatusError", << >>), Response("JSONDecodeError", << >>) }

\* the requests under way without the one of `who`
Without(who) == SelectSeq(inflight, LAMBDA w : w # who)

\* task.cancel() has been called on the polling task: its next step raises
\* CancelledError at the await where it stands, or before its first line
CancelRequested == lifespan = "stopped"

\* lifespan lines 26-32: the initial fetch, then create_task; an exception
\* of the fetch leaves lifespan and the application does not start
Startup ==
    /\ lifespan = "startup"
    /\ \E response \in LoopResponses :
         LET markets == get_markets(response)
         IN  IF markets.raised
             THEN /\ lifespan' = "failed"
                  /\ UNCHANGED <<events, event_keys, previous_spikes, changes, clock,
                                 ret, emitted, polling_task>>
             ELSE /\ fetch_and_process_markets(markets.value, LoopTick(markets.value))
                  /\ polling_task' = Task("created", 0)
                  /\ lifespan' = "serving"
    /\ call' = None
    /\ UNCHANGED <<fed, running, closed, inflight>>

\* start_polling from its first line to its first await: the flag is set,
\* the loop entered and the request sent; on a closed client the request
\* raises RuntimeError at once, line 395 catches it and the task sleeps
LoopStart ==
    /\ polling_task.pc = "created"
    /\ ~CancelRequested
    /\ running' = TRUE
    /\ IF closed
       THEN polling_task' = Task("sleeping", interval) /\ UNCHANGED inflight
       ELSE polling_task' = Task("fetching", 0) /\ inflight' = Append(inflight, "loop")
    /\ UNCHANGED <<events, event_keys, previous_spikes, changes, clock, ret, emitted,
                   fed, call, closed, lifespan>>

\* LoopCycle where an exception of the cycle ends the task
LoopCycle_DiesOnError ==
    /\ polling_task.pc = "fetching"
    /\ ~CancelRequested
    /\ \E response \in LoopResponses :
         LET markets == get_markets(response)
         IN  IF markets.raised
             THEN /\ polling_task' = Task("done", 0)
                  /\ UNCHANGED <<events, event_keys, previous_spikes, changes, clock,
                                 ret, emitted>>
             ELSE /\ fetch_and_process_markets(markets.value, LoopTick(markets.value))
                  /\ polling_task' = Task("sleeping", interval)
    /\ inflight' = Without("loop")
    /\ call' = None
    /\ UNCHANGED <<fed, running, closed, lifespan>>

\* LoopCycle with an await between line 293 and line 296: the task is
\* suspended with the markets stored and the changes not yet detected
LoopCycle_YieldBeforeDetect ==
    /\ polling_task.pc = "fetching"
    /\ ~CancelRequested
    /\ \E response \in LoopResponses :
         LET markets == get_markets(response)
         IN  IF markets.raised
             THEN UNCHANGED <<events, event_keys>>
             ELSE LET new_events == ProcessFrom(markets.value, 1, LoopTick(markets.value))
                  IN  /\ events' = StoreFrom(events, new_events, 1)
                      /\ event_keys' = KeysFrom(event_keys, new_events, 1)
    /\ polling_task' = Task("sleeping", interval)
    /\ inflight' = Without("loop")
    /\ call' = None
    /\ UNCHANGED <<previous_spikes, changes, clock, ret, emitted, fed, running, closed,
                   lifespan>>

\* LoopCycle of a task that runs on although its cancellation was requested
LoopCycle_IgnoresCancel ==
    /\ polling_task.pc = "fetching"
    /\ \E response \in LoopResponses :
         LET markets == get_markets(response)
         IN  IF markets.raised
             THEN UNCHANGED <<events, event_keys, previous_spikes, changes, clock,
                              ret, emitted>>
             ELSE fetch_and_process_markets(markets.value, LoopTick(markets.value))
    /\ polling_task' = Task("sleeping", interval)
    /\ inflight' = Without("loop")
    /\ call' = None
    /\ UNCHANGED <<fed, running, closed, lifespan>>

\* the response of the loop's request arrives: the rest of the cycle (no
\* await from line 59 to line 303), then line 398; an exception of the fetch
\* is caught at line 395
LoopCycle ==
    /\ polling_task.pc = "fetching"
    /\ ~CancelRequested
    /\ \E response \in LoopResponses :
         LET markets == get_markets(response)
         IN  IF markets.raised
             THEN UNCHANGED <<events, event_keys, previous_spikes, changes, clock,
                              ret, emitted>>
             ELSE fetch_and_process_markets(markets.value, LoopTick(markets.value))
    /\ polling_task' = Task("sleeping", interval)
    /\ inflight' = Without("loop")
    /\ call' = None
    /\ UNCHANGED <<fed, running, closed, lifespan>>

\* the sleep is over: the loop head (line 387), then the next request or the
\* return
LoopWake ==
    /\ polling_task.pc = "sleeping"
    /\ ~CancelRequested
    /\ polling_task' =
         IF ~running THEN Task("done", 0)
         ELSE IF closed THEN Task("sleeping", interval)
         ELSE Task("fetching", 0)
    /\ inflight' = IF running /\ ~closed THEN Append(inflight, "loop") ELSE inflight
    /\ UNCHANGED <<events, event_keys, previous_spikes, changes, clock, ret, emitted,
                   fed, call, running, closed, lifespan>>

\* lifespan line 40, stop_polling to its await: the flag is cleared and the
\* client marked closed
StopPolling ==
    /\ lifespan = "serving"
    /\ running' = FALSE
    /\ closed' = TRUE
    /\ lifespan' = "closing"
    /\ UNCHANGED <<events, event_keys, previous_spikes, changes, clock, ret, emitted,
                   fed, call, polling_task, inflight>>

\* stop_polling returns and lifespan calls polling_task.cancel() (line 41,
\* no await in between), then awaits the task
StopReturn ==
    /\ lifespan = "closing"
    /\ lifespan' = "stopped"
    /\ UNCHANGED <<events, event_keys, previous_spikes, changes, clock, ret, emitted,
                   fed, call, running, polling_task, closed, inflight>>

\* the next step of the task raises CancelledError where the task stands
\* (a BaseException: neither line 63 nor line 395 catches it), or the task
\* had returned; lifespan lines 42-47
Shutdown ==
    /\ lifespan = "stopped"
    /\ lifespan' = "shutdown"
    /\ polling_task' =
         IF polling_task.pc \in {"created", "fetching", "sleeping"}
         THEN Task("cancelled", 0) ELSE polling_task
    /\ inflight' = Without("loop")
    /\ UNCHANGED <<events, event_keys, previous_spikes, changes, clock, ret, emitted,
                   fed, call, running, closed>>

\* app.py health_check
health_check ==
    [status |-> "ok",
     events_tracked |-> Cardinality(DOMAIN events),
     events_with_spikes |->
         Cardinality({ id \in DOMAIN events : events[id].volumeSpike # None })]

HealthCall ==
    /\ lifespan \in {"serving", "closing"}
    /\ call' = [op |-> "health_check", args |-> << >>, result |-> health_check]
    /\ UNCHANGED <<events, event_keys, previous_spikes, changes, clock, ret, emitted,
                   fed, loopvars>>

----------------------------------------------------------------------------
(* SpecPoll: the application starts and the loop polls, never stopped.     *)
(* SpecPollFair adds that a task that can run does run: the request ends   *)
(* (the client has a timeout of 30 s) and the sleep ends.                  *)

NextPoll == Startup \/ LoopStart \/ LoopCycle \/ LoopWake

SpecPoll == Init /\ [][NextPoll]_vars

SpecPollFair ==
    SpecPoll /\ WF_vars(LoopStart) /\ WF_vars(LoopCycle) /\ WF_vars(LoopWake)

(* C21: a failure of a cycle does not end the loop: with the running flag   *)
(* true, every cycle, failed or not, is followed by a sleep of exactly the  *)
(* configured interval, every sleep by the next request, the task never     *)
(* returns, and the next cycle always eventually begins.                    *)
C21_LoopSurvivesFailures ==
    /\ [][(polling_task.pc = "fetching" /\ polling_task' # polling_task)
            => polling_task' = Task("sleeping", 7)]_vars
    /\ [][(polling_task.pc = "sleeping" /\ polling_task' # polling_task /\ running)
            => polling_task' = Task("fetching", 0)]_vars
    /\ [](polling_task.pc \notin {"done", "cancelled"})
    /\ [](polling_task.pc \in {"fetching", "sleeping"} => running)
    /\ (lifespan = "serving") ~> (polling_task.pc = "fetching")
    /\ (polling_task.pc = "sleeping") ~> (polling_task.pc = "fetching")

\* the task sleeps after a cycle that stored and logged, the log showing
\* that cycles went on after the spike of "a" came and went
C21_Witness ==
    /\ polling_task = Task("sleeping", 7)
    /\ running
    /\ Len(changes) >= 3
    /\ "a" \in DOMAIN events

----------------------------------------------------------------------------
(* SpecLoop: the application from startup to shutdown, with the readers    *)
(* that iterate the whole store answering between the steps of the loop.   *)

NextLoop ==
    \/ Startup \/ LoopStart \/ LoopCycle \/ LoopWake
    \/ StopPolling \/ StopReturn \/ Shutdown
    \/ FrontierCall \/ SpikeSummaryCall \/ HealthCall

SpecLoop == Init /\ [][NextLoop]_vars

\* stop_polling has been called
StopCalled == lifespan \in {"closing", "stopped", "shutdown"}

(* C22: once stop_polling has been called the running flag stays cleared,   *)
(* and a loop task that passes the loop head (from its creation or from a   *)
(* sleep) returns instead of entering the loop body, whatever the order of  *)
(* stop_polling and the steps of the task.                                  *)
C22_CooperativeExit ==
    /\ [](StopCalled => ~running)
    /\ [][(StopCalled /\ polling_task.pc \in {"created", "sleeping"}
             /\ polling_task'.pc # polling_task.pc)
            => polling_task'.pc \in {"done", "cancelled"}]_vars
    /\ [](StopCalled => closed)

\* the four parts of the store after the whole cycle that a response starts
CycleOutcome(response) ==
    LET markets == get_markets(response).value
        new_events == ProcessFrom(markets, 1, LoopTick(markets))
        d == detect_changes(previous_spikes, changes, new_events,
                            DetectedNow(markets, LoopTick(markets)))
    IN  <<StoreFrom(events, d.new_events, 1), KeysFrom(event_keys, d.new_events, 1),
          d.previous_spikes, d.self_changes>>

(* C23: every step leaves the markets map, previous_spikes and the change   *)
(* log as they were or takes all of them (detectedAt bumps included) to the *)
(* outcome of one whole cycle, so the state a reader iterates is the state  *)
(* before or after a cycle; what the frontier ranking, the spike summary    *)
(* and the health counts answer is computed from that one state, in which   *)
(* the spiking markets of the map are the keys of previous_spikes.          *)
C23_ReadersSeeWholeCycles ==
    /\ [][\/ <<events, event_keys, previous_spikes, changes>>'
               = <<events, event_keys, previous_spikes, changes>>
          \/ \E response \in LoopResponses :
               /\ ~get_markets(response).raised
               /\ <<events, event_keys, previous_spikes, changes>>'
                    = CycleOutcome(response)]_vars
    /\ [](Answering("get_frontier_events")
            => call.result = get_frontier_events(call.args[1], call.args[2]))
    /\ [](Answering("get_spike_summary")
            => /\ call.result = get_spike_summary
               /\ call.result.spike_events = Cardinality(DOMAIN previous_spikes))
    /\ [](Answering("health_check")
            => /\ call.result.events_tracked = Cardinality(DOMAIN events)
               /\ call.result.events_with_spikes = Cardinality(DOMAIN previous_spikes))

\* the spike summary answers while the request of the loop is under way,
\* after cycles that logged a spike of "a" coming and going and coming
C23_Witness ==
    /\ Answering("get_spike_summary")
    /\ polling_task.pc = "fetching"
    /\ Len(changes) >= 3
    /\ call.result.spike_events = 1

----------------------------------------------------------------------------
(* Claims on the fields of the stored markets.                             *)

\* the first price of the record is read and lies outside [0, 1]
OutOfRange(r) ==
    /\ r.volume24hr # None /\ r.volume1wk # None
    /\ ParsePrices(r.outcomePrices) # None
    /\ ~(0 <= ParsePrices(r.outcomePrices)[1] /\ ParsePrices(r.outcomePrices)[1] <= 100)

(* C31: every stored market has a probability in [0, 1] (0..100 in         *)
(* hundredths); a record whose first price lies outside [0, 1] yields no   *)
(* market, and a batch of such records leaves the markets map as it was.   *)
C31_ProbabilityInUnitInterval ==
    /\ [](\A id \in DOMAIN events :
            0 <= events[id].probability /\ events[id].probability <= 100)
    /\ [](Fetched =>
            Len(ret) <= Cardinality({ i \in 1..Len(call.args[1].body) :
                                        ~OutOfRange(call.args[1].body[i]) }))
    /\ [][(Answers("force_refresh") /\ call'.args[1].kind = "ok"
             /\ \A i \in 1..Len(call'.args[1].body) : OutOfRange(call'.args[1].body[i]))
            => (events' = events /\ event_keys' = event_keys /\ ret' = << >>)]_vars

\* "a" is stored with the default probability 0.5 and a refresh has just
\* brought a record of "a" with the price 1.5
C31_Witness ==
    /\ Fetched
    /\ Len(call.args[1].body) = 1
    /\ OutOfRange(call.args[1].body[1])
    /\ "a" \in DOMAIN events
    /\ events["a"].probability = 50

----------------------------------------------------------------------------
(* Claims on the activity feed: the frontier after a cycle.                *)

\* the ids the last cycle classified as new_spike or spike_increased
Bumped == { emitted[i].eventId : i \in { j \in 1..Len(emitted) : Bumps(emitted[j].changeType) } }

\* the place of a stored id in the unfiltered frontier
Place(id) ==
    LET frontier == get_frontier_events(100, FALSE)
    IN  CHOOSE k \in 1..Len(frontier) : frontier[k].id = id

(* C32: after a poll cycle every market the cycle classified as new_spike   *)
(* or spike_increased precedes, in the unfiltered frontier, every stored    *)
(* market the cycle did not classify so.                                    *)
C32_FreshSpikesOnTop ==
    \A x \in Bumped : \A y \in DOMAIN events \ Bumped : Place(x) < Place(y)

\* the log entries that classify id as new_spike or spike_increased
BumpsOf(id) ==
    { i \in 1..Len(changes) : changes[i].eventId = id /\ Bumps(changes[i].changeType) }

\* the detection time of the cycle of the latest such entry (every cycle of
\* SpecQuery reads a later clock than the one before)
LastBump(id) ==
    LET last == CHOOSE i \in BumpsOf(id) : \A j \in BumpsOf(id) : j <= i
    IN  changes[last].timestamp

(* C33: of two stored markets, the one whose latest new_spike or            *)
(* spike_increased is of a later cycle precedes the other in the frontier,  *)
(* however often both were re-processed since and wherever they stand in    *)
(* the batches.                                                             *)
C33_OlderSpikesAgeDown ==
    \A x, y \in DOMAIN events :
        (BumpsOf(x) # {} /\ BumpsOf(y) # {} /\ LastBump(x) < LastBump(y))
            => Place(y) < Place(x)

----------------------------------------------------------------------------
(* Claims on the writers of the store.                                     *)

(* C34: the locked flag of a stored market changes only in a step that      *)
(* answers toggle-lock for that market: a poll cycle that re-processes a    *)
(* locked market leaves it locked.                                          *)
C34_LockedWrittenByToggleOnly ==
    [][\A id \in DOMAIN events :
         events'[id].locked # events[id].locked
            => (Answers("toggle_event_lock") /\ call'.args[1] = id)]_vars

\* stop_polling has returned
StopReturned == lifespan \in {"stopped", "shutdown"}

(* C39: once stop_polling has returned, no step changes the markets map,    *)
(* its key order, previous_spikes or the change log, also when the loop's   *)
(* request was under way at the time stop_polling was called.               *)
C39_NoWriteAfterStop ==
    [][StopReturned => UNCHANGED <<events, event_keys, previous_spikes, changes>>]_vars

\* stop_polling has returned while the request of the loop is still under
\* way, on a store the loop has written
C39_Witness ==
    /\ lifespan = "stopped"
    /\ polling_task.pc = "fetching"
    /\ inflight = <<"loop">>
    /\ ~running /\ closed
    /\ Len(changes) >= 2

----------------------------------------------------------------------------
(* SpecOverlap: POST /refresh while the loop polls.  The route awaits the  *)
(* feed like the loop does (ingestion.py line 278), so the two requests    *)
(* can be under way together, and the responses arrive in either order.    *)

\* force_refresh up to its await: the request is sent
RefreshIssue ==
    /\ lifespan = "serving"
    /\ "refresh" \notin { inflight[i] : i \in 1..Len(inflight) }
    /\ inflight' = Append(inflight, "refresh")
    /\ UNCHANGED <<events, event_keys, previous_spikes, changes, clock, ret, emitted,
                   fed, call, running, polling_task, closed, lifespan>>

\* the response of the route's request arrives: the rest of the cycle and
\* of the route
RefreshArrive ==
    /\ "refresh" \in { inflight[i] : i \in 1..Len(inflight) }
    /\ \E response \in LoopResponses :
         force_refresh(response, LoopTick(get_markets(response).value))
    /\ inflight' = Without("refresh")
    /\ UNCHANGED <<fed, running, polling_task, closed, lifespan>>

NextOverlap ==
    \/ Startup \/ LoopStart \/ LoopCycle \/ LoopWake
    \/ RefreshIssue \/ RefreshArrive

SpecOverlap == Init /\ [][NextOverlap]_vars

(* C35: when the request of a refresh and the request of the loop are under *)
(* way together, each batch is applied in one step, and the batches are     *)
(* applied in the order in which the requests were sent: the coroutine      *)
(* whose cycle completes is the one that has waited longest.                *)
C35_BatchesInIssueOrder ==
    /\ [][\/ <<events, event_keys, previous_spikes, changes>>'
               = <<events, event_keys, previous_spikes, changes>>
          \/ \E response \in LoopResponses :
               /\ ~get_markets(response).raised
               /\ <<events, event_keys, previous_spikes, changes>>'
                    = CycleOutcome(response)]_vars
    /\ [][Len(inflight') < Len(inflight) => inflight' = Tail(inflight)]_vars

----------------------------------------------------------------------------
(* Claims on the entries of the change log.                                *)

\* the ratio is present and at least VOLUME_SPIKE_THRESHOLD
IsSpikeRatio(x) == x # None /\ RatLeq(<<13, 10>>, x)

(* C36: every entry of the change log has the shape of its type: new_spike  *)
(* no old ratio and a new one, spike_removed an old ratio and no new one,   *)
(* spike_increased both with new > old, spike_decreased both with           *)
(* new < old; every ratio present in an entry is at least 1.3.              *)
C36_LogEntriesWellFormed ==
    \A i \in 1..Len(changes) :
        LET old == changes[i].oldSpikeRatio
            new == changes[i].newSpikeRatio
        IN  CASE changes[i].changeType = "new_spike" ->
                    old = None /\ IsSpikeRatio(new)
              [] changes[i].changeType = "spike_removed" ->
                    IsSpikeRatio(old) /\ new = None
              [] changes[i].changeType = "spike_increased" ->
                    IsSpikeRatio(old) /\ IsSpikeRatio(new) /\ RatLt(old, new)
              [] changes[i].changeType = "spike_decreased" ->
                    IsSpikeRatio(old) /\ IsSpikeRatio(new) /\ RatLt(new, old)
              [] OTHER -> FALSE

\* the log holds an entry of each type
C36_Witness ==
    { changes[i].changeType : i \in 1..Len(changes) }
        = {"new_spike", "spike_increased", "spike_decreased", "spike_removed"}

(* C37: a cycle leaves every stored market it did not process (absent      *)
(* from the batch, or every record of it skipped) as it was: the stored     *)
(* market with its ratio, its previous_spikes entry, and no event for it;   *)
(* no step removes a key from the markets map or moves one in its order.    *)
C37_UnprocessedUntouched ==
    /\ [][clock' # clock =>
            \A id \in DOMAIN events \ { ret'[i].id : i \in 1..Len(ret') } :
                /\ id \in DOMAIN events'
                /\ events'[id] = events[id]
                /\ Get(previous_spikes', id) = Get(previous_spikes, id)
                /\ \A i \in 1..Len(emitted') : emitted'[i].eventId # id]_vars
    /\ [][/\ DOMAIN events \subseteq DOMAIN events'
          /\ Len(event_keys) <= Len(event_keys')
          /\ SubSeq(event_keys', 1, Len(event_keys)) = event_keys]_vars

\* "a" keeps its spike (stored at the first clock reading) through a cycle
\* that processed "b" only
C37_Witness ==
    /\ clock = 2
    /\ "a" \in DOMAIN previous_spikes
    /\ events["a"].detectedAt = 1
    /\ Len(ret) = 1 /\ ret[1].id = "b"

\* the new ratio of cycle k is present and strictly within 5% of the ratio
\* of cycle k - 1
SmallMove(k) ==
    /\ FedRatio(k - 1) # None /\ FedRatio(k) # None
    /\ RatLt(Down5(FedRatio(k - 1)), FedRatio(k))
    /\ RatLt(FedRatio(k), Up5(FedRatio(k - 1)))

(* C38: after every cycle the previous_spikes entry of the market is the    *)
(* ratio of that cycle, event or no event, and an event of cycle k carries  *)
(* the ratios of cycles k - 1 and k; so cycles j + 1 .. k that each move    *)
(* the ratio by less than 5% emit no event, whatever the distance between   *)
(* the ratios of cycles j and k.                                            *)
C38_BaselineIsPreviousCycle ==
    /\ Len(fed) >= 1 => Get(previous_spikes, "a") = FedRatio(Len(fed))
    /\ \A i \in 1..Len(changes) :
         /\ changes[i].oldSpikeRatio = FedRatio(changes[i].timestamp - 1)
         /\ changes[i].newSpikeRatio = FedRatio(changes[i].timestamp)
    /\ \A j \in 0..Len(fed) : \A k \in j..Len(fed) :
         (\A i \in (j + 1)..k : SmallMove(i))
            => \A i \in (j + 1)..k : TypesAt(i) = << >>

\* 2.0, 2.05, 2.15: two moves of less than 5% that add up to 7.5%, and the
\* log holds the new_spike only
C38_Witness ==
    /\ FedRatios = <<<<2, 1>>, <<41, 20>>, <<43, 20>>>>
    /\ SmallMove(2) /\ SmallMove(3)
    /\ RatLt(Up5(FedRatio(1)), FedRatio(3))
    /\ ChangeTypes = <<"new_spike">>

(* C40: the timestamps of the change log do not decrease from the oldest   *)
(* entry to the newest; get_changes_since(t) is, for every t, a prefix of   *)
(* get_recent_changes(100), the whole log most recent first; and no step    *)
(* lowers the detectedAt of a stored market.                                *)
C40_TimestampsMonotone ==
    /\ [](\A i, j \in 1..Len(changes) :
            i < j => changes[i].timestamp <= changes[j].timestamp)
    /\ [](\A since \in Sinces :
            /\ Len(get_changes_since(since)) <= Len(get_recent_changes(100))
            /\ get_changes_since(since)
                 = SubSeq(get_recent_changes(100), 1, Len(get_changes_since(since))))
    /\ [](Answering("get_changes_since")
            => call.result = SubSeq(get_recent_changes(100), 1, Len(call.result)))
    /\ [][\A id \in DOMAIN events :
            events'[id].detectedAt >= events[id].detectedAt]_vars

\* get_changes_since answers the two newest of three entries, logged in
\* three cycles
C40_Witness ==
    /\ Answering("get_changes_since")
    /\ Len(changes) = 3
    /\ changes[1].timestamp < changes[2].timestamp
    /\ changes[2].timestamp < changes[3].timestamp
    /\ call.args[1] = changes[1].timestamp
    /\ call.result = <<changes[3], changes[2]>>

====
